---- MODULE Spec2Model ----
(***************************************************************************)
(* Structured-output extraction and repair pipeline of the test case       *)
(* generator (src/app_ui.py, src/app_ui_v1.py, src/test_case_generator.py) *)
(* and the requirement table (src/db.py, src/initialize_db.py).            *)
(*                                                                         *)
(* Text is a sequence of tokens.  A token is one character class or one    *)
(* atomic word of the program's vocabulary:                                *)
(*   " " "\n"          whitespace (what str.strip, str.split and \s see)   *)
(*   "0" ... "9"       decimal digits (\d)                                 *)
(*   "."  ":"  "fw:"   full stop, ASCII colon, full-width colon            *)
(*   "##" "**" ">"     markdown markers                                    *)
(*   "kw_id" ...       the field labels of the markdown vocabulary         *)
(*   "TC-A" "TC-B"     identifier words with the prefix TC                 *)
(*   "a" "x"           any other word                                      *)
(*   "~~~json" "~~~"   the fence opener and the fence closer               *)
(*   "{json}"          the serialisation of the JSON value `payload`       *)
(*   "[[...]]"         JSON text nested deeper than the recursion limit    *)
(* Python values that may be a string or something else (the values of a   *)
(* decoded JSON document) are tagged: [t |-> "str", s |-> tokens],         *)
(* [t |-> "none"], [t |-> "num"] (a non-zero number), [t |-> "zero"],      *)
(* [t |-> "list"] (a non-empty list).                                      *)
(***************************************************************************)
EXTENDS Integers, Sequences, FiniteSets, TLC

VARIABLES
    pc,               \* position of the submit handler of app_ui
    full_response,    \* text streamed by the agent
    payload,          \* the JSON value the token "{json}" serialises
    test_case_count,  \* requested number of test cases
    output_format,    \* "Excel" | "Markdown" | "JSON"
    result,           \* text returned by validate_and_format_testcases
    download,         \* what the export branch offers for download
    text,             \* argument of format_numbered_text
    once,             \* format_numbered_text(text)
    twice,            \* format_numbered_text(format_numbered_text(text))
    testcase_json,    \* app_ui_v1: text returned by generate_testcases
    generated_testcases,  \* app_ui_v1: st.session_state.generated_testcases
    tier,             \* app_ui_v1: the return statement that produced it
    stream_failed,    \* app_ui_v1: generate_testcases went through its except branch
    source_text,      \* argument of parse_test_cases_structured
    extracted,        \* outcome of extract_json_from_text(source_text)
    parsed,           \* outcome of parse_test_cases_structured(source_text)
    table,            \* the table business_requirement
    db_call,          \* the last call of BusinessRequirementCRUD
    db_error,         \* whether that call raised
    db_returned,      \* what that call returned
    requirement_list, \* test_case_generator: requirements.requirements
    response_content, \* test_case_generator: response.content
    returned          \* test_case_generator: outcome of _generate_test_cases_async

appVars == <<full_response, test_case_count, output_format, result, download>>
fmtVars == <<text, once, twice>>
v1Vars == <<testcase_json, generated_testcases, tier, stream_failed>>
parseVars == <<source_text, extracted, parsed>>
dbVars == <<table, db_call, db_error, db_returned>>
genVars == <<requirement_list, response_content, returned>>

vars == <<pc, payload, appVars, fmtVars, v1Vars, parseVars, dbVars, genVars>>

-----------------------------------------------------------------------------
(* Bounds *)

MaxLen == 5        \* longest argument of format_numbered_text
MaxCases == 2      \* most elements of a "test_cases" list
MaxLines == 3      \* most lines of a markdown response
MaxCount == 3      \* largest requested number of test cases

-----------------------------------------------------------------------------
(* Strings *)

IsSpace(t) == t \in {" ", "\n"}
Digits == <<"0", "1", "2", "3", "4", "5", "6", "7", "8", "9">>
IsDigit(t) == \E i \in 1..10 : t = Digits[i]

RECURSIVE lstrip(_)
lstrip(s) ==
    IF s # <<>> /\ IsSpace(Head(s)) THEN lstrip(Tail(s)) ELSE s

RECURSIVE rstrip(_)
rstrip(s) ==
    IF s # <<>> /\ IsSpace(s[Len(s)]) THEN rstrip(SubSeq(s, 1, Len(s) - 1)) ELSE s

strip(s) == rstrip(lstrip(s))

\* str values
Str(s) == [t |-> "str", s |-> s]
None == [t |-> "none", s |-> <<>>]
Num == [t |-> "num", s |-> <<>>]
Zero == [t |-> "zero", s |-> <<>>]
List == [t |-> "list", s |-> <<>>]

\* Python truth value of a tagged value
Truthy(v) ==
    CASE v.t = "str" -> v.s # <<>>
      [] v.t = "none" -> FALSE
      [] v.t = "zero" -> FALSE
      [] OTHER -> TRUE

\* the result of a call that raised
Raised == [raised |-> TRUE, val |-> <<>>]
Returned(v) == [raised |-> FALSE, val |-> v]

-----------------------------------------------------------------------------
(* format_numbered_text *)

RECURSIVE DigitRun(_, _)
DigitRun(s, p) ==
    IF p <= Len(s) /\ IsDigit(s[p]) THEN 1 + DigitRun(s, p + 1) ELSE 0

\* length of the match of (\d+\.\s) that starts at position p, 0 if none
MatchAt(s, p) ==
    LET k == DigitRun(s, p) IN
    IF k > 0 /\ p + k + 1 <= Len(s) /\ s[p + k] = "." /\ IsSpace(s[p + k + 1])
    THEN k + 2 ELSE 0

RECURSIVE FindMatch(_, _)
FindMatch(s, p) ==
    IF p > Len(s) THEN 0
    ELSE IF MatchAt(s, p) > 0 THEN p
    ELSE FindMatch(s, p + 1)

\* re.split(r'(\d+\.\s)', s): text, marker, text, marker, ..., text
RECURSIVE re_split(_)
re_split(s) ==
    LET p == FindMatch(s, 1) IN
    IF p = 0 THEN <<s>>
    ELSE LET n == MatchAt(s, p) IN
         <<SubSeq(s, 1, p - 1), SubSeq(s, p, p + n - 1)>>
           \o re_split(SubSeq(s, p + n, Len(s)))

RECURSIVE JoinLines(_)
JoinLines(ls) ==
    IF ls = <<>> THEN <<>>
    ELSE IF Len(ls) = 1 THEN ls[1]
    ELSE ls[1] \o <<"\n">> \o JoinLines(Tail(ls))

\* the while loop over parts, from index i
RECURSIVE formatted_lines(_, _)
formatted_lines(parts, i) ==
    IF i > Len(parts) THEN <<>>
    ELSE IF MatchAt(parts[i], 1) > 0
         THEN IF i + 1 <= Len(parts)
              THEN <<parts[i] \o strip(parts[i + 1])>> \o formatted_lines(parts, i + 2)
              ELSE <<parts[i]>> \o formatted_lines(parts, i + 1)
         ELSE IF strip(parts[i]) # <<>>
              THEN <<strip(parts[i])>> \o formatted_lines(parts, i + 1)
              ELSE formatted_lines(parts, i + 1)

format_numbered_text(s) ==
    IF s = <<>> THEN s
    ELSE LET parts == re_split(s) IN
         IF Len(parts) <= 1 THEN s
         ELSE JoinLines(formatted_lines(parts, 1))

\* format_numbered_text applied to a value that need not be a string:
\* a falsy value is returned as it is, re.split raises on a non-string
format_numbered_value(v) ==
    IF ~Truthy(v) THEN Returned(v)
    ELSE IF v.t = "str" THEN Returned(Str(format_numbered_text(v.s)))
    ELSE Raised

-----------------------------------------------------------------------------
(* Decoded JSON values *)

\* "未指定", the sentinel of a field that was not found
Unspecified == Str(<<"unspecified">>)
\* a key that the JSON object does not have
Missing == [t |-> "missing", s |-> <<>>]

JsonKeys == {"case_id", "priority", "title", "precondition", "steps", "expected_result"}

\* an element of a "test_cases" list: an object with some of the six keys,
\* or something that is not an object
DictElem(f) == [t |-> "dict", f |-> f]
NonDictElem == [t |-> "num", f |-> [k \in JsonKeys |-> Missing]]

\* a decoded document: t is its Python type, truthy its truth value, has_tc
\* whether "test_cases" in document holds, tc the value under that key and
\* items the elements of that value when it is a list (of the document
\* itself when the document is a list)
Doc(t, truthy, has_tc, tc, items) ==
    [t |-> t, truthy |-> truthy, has_tc |-> has_tc, tc |-> tc, items |-> items]

JNone == Doc("none", FALSE, FALSE, None, <<>>)
JNumber == Doc("num", TRUE, FALSE, None, <<>>)
JZero == Doc("zero", FALSE, FALSE, None, <<>>)
JTrue == Doc("bool", TRUE, FALSE, None, <<>>)
JString(has_tc) == Doc("str", TRUE, has_tc, None, <<>>)
JList(has_tc, items) == Doc("list", has_tc \/ items # <<>>, has_tc, None, items)
JEmptyDict == Doc("dict", FALSE, FALSE, None, <<>>)
JDictOther == Doc("dict", TRUE, FALSE, None, <<>>)
JTestCases(items) == Doc("dict", TRUE, TRUE, List, items)
JTestCasesNotList(v) == Doc("dict", TRUE, TRUE, v, <<>>)
\* an object that is itself a test case: {"case_id": ..., "title": ..., ...}
JCase(tc) == Doc("case", TRUE, FALSE, None, <<tc>>)

-----------------------------------------------------------------------------
(* extract_json_from_text *)

Min(S) == CHOOSE x \in S : \A y \in S : x <= y

\* str.find of a one-token needle from position p on; 0 when absent
Find(s, needles, p) ==
    LET I == {i \in p..Len(s) : s[i] \in needles} IN
    IF I = {} THEN 0 ELSE Min(I)

\* a JSON number literal: digits, or digits "." digits
IsNumberLiteral(s) ==
    LET k == DigitRun(s, 1) IN
    /\ k > 0
    /\ (k = 1 \/ s[1] # "0")
    /\ \/ k = Len(s)
       \/ /\ k + 1 < Len(s)
          /\ s[k + 1] = "."
          /\ DigitRun(s, k + 2) = Len(s) - k - 1

\* the exceptions json.loads raises on a str
JSONDecodeError == [raised |-> TRUE, val |-> <<"JSONDecodeError">>]
RecursionError == [raised |-> TRUE, val |-> <<"RecursionError">>]

\* json.loads: the decoded value, JSONDecodeError on text that is not JSON,
\* RecursionError on text nested deeper than the interpreter's limit
json_loads(s, doc) ==
    LET c == strip(s) IN
    IF c = <<"{json}">> THEN Returned(doc)
    ELSE IF c = <<"[[...]]">> THEN RecursionError
    ELSE IF IsNumberLiteral(c)
         THEN Returned(IF \A i \in 1..Len(c) : c[i] \in {"0", "."} THEN JZero ELSE JNumber)
    ELSE JSONDecodeError

\* except (json.JSONDecodeError, AttributeError): return None
extract_json_from_text(s, doc) ==
    LET start_idx == Find(s, {"~~~json"}, 1)
        end_idx == IF start_idx = 0 THEN 0 ELSE Find(s, {"~~~json", "~~~"}, start_idx + 1)
        loaded == IF start_idx # 0 /\ end_idx # 0
                  THEN json_loads(SubSeq(s, start_idx + 1, end_idx - 1), doc)
                  ELSE json_loads(s, doc)
    IN IF loaded = JSONDecodeError THEN Returned(JNone) ELSE loaded

-----------------------------------------------------------------------------
(* count_test_cases *)

RECURSIVE split_lines(_)
split_lines(s) ==
    LET p == Find(s, {"\n"}, 1) IN
    IF p = 0 THEN <<s>>
    ELSE <<SubSeq(s, 1, p - 1)>> \o split_lines(SubSeq(s, p + 1, Len(s)))

\* line.strip().startswith('## ')
is_heading(line) ==
    LET c == strip(line) IN Len(c) >= 2 /\ c[1] = "##" /\ c[2] = " "

\* json_data and "test_cases" in json_data
has_test_cases(d) ==
    IF ~d.truthy THEN Returned(FALSE)
    ELSE IF d.t \in {"dict", "case", "str", "list"} THEN Returned(d.has_tc)
    ELSE Raised

\* len(json_data["test_cases"])
len_test_cases(d) ==
    IF d.t # "dict" THEN Raised
    ELSE IF d.tc.t = "list" THEN Returned(Len(d.items))
    ELSE IF d.tc.t = "str" THEN Returned(Len(d.tc.s))
    ELSE Raised

count_test_cases(s, doc) ==
    LET json_data == extract_json_from_text(s, doc)
        has == has_test_cases(json_data.val)
        lines == split_lines(s)
    IN IF json_data.raised THEN json_data
       ELSE IF has.raised THEN Raised
       ELSE IF has.val THEN len_test_cases(json_data.val)
       ELSE Returned(Cardinality({i \in 1..Len(lines) : is_heading(lines[i])}))

-----------------------------------------------------------------------------
(* parse_test_cases_structured *)

\* the user's choice in the "测试级别" select box
test_level == Str(<<"system_test">>)

\* tc.get(key, "未指定")
get(tc, key) == IF tc.f[key] = Missing THEN Unspecified ELSE tc.f[key]

\* a row of the table; the keys stand for 用例ID, 标题, 测试级别, 优先级,
\* 前置条件, 测试步骤, 预期结果
Row(id, title, level, priority, precondition, steps, expected_result) ==
    [id |-> id, title |-> title, level |-> level, priority |-> priority,
     precondition |-> precondition, steps |-> steps,
     expected_result |-> expected_result]

\* json_row with the title read from the key "priority"
json_row_title_from_priority(tc) ==
    Row(get(tc, "case_id"), get(tc, "priority"), test_level, get(tc, "priority"),
        get(tc, "precondition"),
        format_numbered_value(get(tc, "steps")).val,
        format_numbered_value(get(tc, "expected_result")).val)

\* the row appended for one element of json_data["test_cases"]
json_row(tc) ==
    Row(get(tc, "case_id"), get(tc, "title"), test_level, get(tc, "priority"),
        get(tc, "precondition"),
        format_numbered_value(get(tc, "steps")).val,
        format_numbered_value(get(tc, "expected_result")).val)

\* the JSON branch: iterating json_data["test_cases"]
parse_json_rows(d) ==
    IF d.t # "dict" THEN Raised
    ELSE IF d.tc.t = "str" THEN (IF d.tc.s = <<>> THEN Returned(<<>>) ELSE Raised)
    ELSE IF d.tc.t # "list" THEN Raised
    ELSE IF \E i \in 1..Len(d.items) :
               \/ d.items[i].t # "dict"
               \/ format_numbered_value(get(d.items[i], "steps")).raised
               \/ format_numbered_value(get(d.items[i], "expected_result")).raised
         THEN Raised
    ELSE Returned([i \in 1..Len(d.items) |-> json_row(d.items[i])])

\* the blocks of the text: a block starts at each heading line
RECURSIVE blocks_from(_, _, _)
blocks_from(lines, i, current_block) ==
    LET saved == IF current_block # <<>> THEN <<JoinLines(current_block)>> ELSE <<>> IN
    IF i > Len(lines) THEN saved
    ELSE IF is_heading(lines[i]) THEN saved \o blocks_from(lines, i + 1, <<lines[i]>>)
    ELSE blocks_from(lines, i + 1, Append(current_block, lines[i]))

\* str.split(): the words between runs of whitespace
RECURSIVE words(_)
words(s) ==
    LET c == lstrip(s)
        p == Find(c, {" ", "\n"}, 1)
    IN IF c = <<>> THEN <<>>
       ELSE IF p = 0 THEN <<c>>
       ELSE <<SubSeq(c, 1, p - 1)>> \o words(SubSeq(c, p, Len(c)))

\* tokens that start with "TC", and those of them that hold "TC-" or "TC_"
TCWords == {"TC-A", "TC-B", "TC_A", "TCX"}
TCSeparated == {"TC-A", "TC-B", "TC_A"}

\* the first word that starts with "TC", or the default
first_tc_word(line, default) ==
    LET ws == words(line)
        I == {i \in 1..Len(ws) : ws[i][1] \in TCWords}
    IN IF I = {} THEN default ELSE Str(ws[Min(I)])

\* s.split(c, 1)[1].strip()
after_colon(line, c) == strip(SubSeq(line, Find(line, {c}, 1) + 1, Len(line)))

Has(line, tok) == \E i \in 1..Len(line) : line[i] = tok

\* f"**{keyword}**" in line
has_label(line, keyword) ==
    \E i \in 1..Len(line) - 2 :
        line[i] = "**" /\ line[i + 1] = keyword /\ line[i + 2] = "**"

\* the identifier of a block: the 用例ID line, then the header line
block_id(block) ==
    LET lines == split_lines(block)
        I == {i \in 1..Len(lines) : Has(lines[i], "kw_id")}
        id_line == lines[Min(I)]
        explicit == IF I = {} THEN Unspecified
                    ELSE IF Has(id_line, ":") THEN Str(after_colon(id_line, ":"))
                    ELSE IF Has(id_line, "fw:") THEN Str(after_colon(id_line, "fw:"))
                    ELSE first_tc_word(id_line, Unspecified)
        header_line == lines[1]
    IN IF explicit # Unspecified THEN explicit
       ELSE IF \E i \in 1..Len(header_line) : header_line[i] \in TCSeparated
            THEN first_tc_word(header_line, Unspecified)
       ELSE Unspecified

\* the labels 标题, 测试级别, 优先级, 前置条件, 测试步骤, 预期结果
fields == <<"kw_title", "kw_level", "kw_priority", "kw_precondition",
            "kw_steps", "kw_expected">>

\* the value of one field of a block, or the default
block_field(block, keyword) ==
    LET lines == split_lines(block)
        S == {i \in 1..Len(lines) : has_label(lines[i], keyword)}
        section_start == Min(S)
        E == {i \in section_start + 1..Len(lines) :
                 \E k \in 1..Len(fields) : has_label(lines[i], fields[k])}
        section_end == IF E = {} THEN Len(lines) + 1 ELSE Min(E)
        content_start_line == lines[section_start]
        first_line_content ==
            IF Has(content_start_line, ":") THEN after_colon(content_start_line, ":")
            ELSE IF Has(content_start_line, "fw:") THEN after_colon(content_start_line, "fw:")
            ELSE <<>>
        content == (IF first_line_content # <<>> THEN <<first_line_content>> ELSE <<>>)
                     \o SubSeq(lines, section_start + 1, section_end - 1)
        content_text == strip(JoinLines(content))
    IN IF S = {} THEN Unspecified
       ELSE IF keyword \in {"kw_steps", "kw_expected"}
            THEN Str(format_numbered_text(content_text))
       ELSE Str(content_text)

block_row(block) ==
    Row(block_id(block), block_field(block, "kw_title"), block_field(block, "kw_level"),
        block_field(block, "kw_priority"), block_field(block, "kw_precondition"),
        block_field(block, "kw_steps"), block_field(block, "kw_expected"))

\* the rows of the blocks that are not blank and have an identifier
RECURSIVE block_rows(_, _)
block_rows(blocks, i) ==
    IF i > Len(blocks) THEN <<>>
    ELSE IF strip(blocks[i]) = <<>> THEN block_rows(blocks, i + 1)
    ELSE IF block_id(blocks[i]) # Unspecified
         THEN <<block_row(blocks[i])>> \o block_rows(blocks, i + 1)
    ELSE block_rows(blocks, i + 1)

parse_test_cases_structured(s, doc) ==
    LET json_data == extract_json_from_text(s, doc)
        has == has_test_cases(json_data.val)
    IN IF json_data.raised THEN json_data
       ELSE IF has.raised THEN Raised
       ELSE IF has.val THEN parse_json_rows(json_data.val)
       ELSE Returned(block_rows(blocks_from(split_lines(s), 1, <<>>), 1))

-----------------------------------------------------------------------------
(* validate_and_format_testcases *)

\* str(n)
RECURSIVE int_str(_)
int_str(n) ==
    IF n < 10 THEN <<Digits[n + 1]>> ELSE Append(int_str(n \div 10), Digits[(n % 10) + 1])

\* "\n\n> ⚠️ **警告**: 生成了 {actual_count} 条测试用例，但要求是 {expected_count} 条。"
count_warning(actual_count, expected_count) ==
    <<"\n", "\n", ">", " ", "(!)", " ", "**", "kw_warning", "**", ":", " ",
      "generated", " ">> \o int_str(actual_count)
      \o <<" ", "cases_but_required", " ">> \o int_str(expected_count)
      \o <<" ", "cases_end">>

\* "\n\n> ⚠️ **警告**: 存在重复的测试用例ID，请检查。"; the sentence holds the
\* characters 用例ID
duplicate_warning ==
    <<"\n", "\n", ">", " ", "(!)", " ", "**", "kw_warning", "**", ":", " ",
      "duplicated_test", "kw_id", "please_check">>

\* values that set() cannot hash
Unhashable(v) == v.t = "list"

Range(f) == {f[i] : i \in DOMAIN f}

\* the body of the function once actual_count and the parsed rows are known
annotated(raw_output, expected_count, actual_count, data) ==
    LET ids == [i \in 1..Len(data.val) |-> data.val[i].id]
        counted == IF actual_count.val # expected_count
                   THEN raw_output \o count_warning(actual_count.val, expected_count)
                   ELSE raw_output
    IN IF actual_count.raised \/ data.raised THEN Raised
       ELSE IF \E i \in 1..Len(ids) : Unhashable(ids[i]) THEN Raised
       ELSE IF Cardinality(Range(ids)) # Len(ids)
            THEN Returned(counted \o duplicate_warning)
       ELSE Returned(counted)

validate_and_format_testcases(raw_output, expected_count, doc) ==
    annotated(raw_output, expected_count, count_test_cases(raw_output, doc),
              parse_test_cases_structured(raw_output, doc))

-----------------------------------------------------------------------------
(* markdown_to_json *)

\* pydantic accepts the TestCase when every field is a str
TestCase(tc) ==
    [case_id |-> tc.id, priority |-> tc.priority, title |-> tc.title,
     precondition |-> tc.precondition, steps |-> tc.steps,
     expected_result |-> tc.expected_result]

ValidTestCase(tc) == \A k \in JsonKeys : TestCase(tc)[k].t = "str"

RECURSIVE valid_test_cases(_)
valid_test_cases(data) ==
    IF data = <<>> THEN <<>>
    ELSE IF ValidTestCase(Head(data))
         THEN <<TestCase(Head(data))>> \o valid_test_cases(Tail(data))
    ELSE valid_test_cases(Tail(data))

\* TestCaseCollection(test_cases=valid_test_cases), or the parser's exception
collection(data) ==
    IF data.raised THEN Raised ELSE Returned(valid_test_cases(data.val))

\* the test cases of the returned collection; <<>> stands for None
markdown_to_json(markdown_text, doc) ==
    collection(parse_test_cases_structured(markdown_text, doc))

-----------------------------------------------------------------------------
(* What the agent may answer *)

RECURSIVE SeqsUpTo(_, _)
SeqsUpTo(S, n) ==
    IF n = 0 THEN {<<>>}
    ELSE LET shorter == SeqsUpTo(S, n - 1) IN
         shorter \cup {Append(q, e) : q \in shorter, e \in S}

\* a test case object with every key a string, and variations of it
Plain == [k \in JsonKeys |-> Str(<<"a">>)]
Inline == <<"1", ".", " ", "a", " ", "2", ".", " ", "a">>

ElemSamples ==
    { DictElem([Plain EXCEPT !["case_id"] = Str(<<"TC-A">>), !["steps"] = Str(Inline)]),
      DictElem([Plain EXCEPT !["case_id"] = Str(<<"TC-B">>), !["title"] = Str(<<"x">>),
                             !["expected_result"] = Str(Inline)]),
      DictElem([Plain EXCEPT !["case_id"] = None]),
      DictElem([Plain EXCEPT !["case_id"] = List]),
      DictElem([Plain EXCEPT !["case_id"] = Str(<<"TC-A">>), !["title"] = Num]),
      DictElem([Plain EXCEPT !["case_id"] = Str(<<"TC-A">>), !["steps"] = Num]),
      DictElem([Plain EXCEPT !["case_id"] = Str(<<"TC-B">>), !["steps"] = Zero]),
      DictElem([Plain EXCEPT !["case_id"] = Str(<<"TC-B">>), !["expected_result"] = Num]),
      DictElem([k \in JsonKeys |-> Missing]),
      NonDictElem }

DocSamples ==
    {JTestCases(items) : items \in SeqsUpTo(ElemSamples, MaxCases)}
      \cup {JNone, JNumber, JZero, JTrue, JString(TRUE), JString(FALSE),
            JList(TRUE, <<>>), JList(FALSE, <<>>), JEmptyDict, JDictOther,
            JTestCasesNotList(Num), JTestCasesNotList(Str(<<"a", "x">>)),
            JTestCasesNotList(Str(<<>>))}

\* the document alone, inside a fence, and after a sentence
JsonTexts ==
    { <<"{json}">>,
      <<"~~~json", "\n", "{json}", "\n", "~~~">>,
      <<"x", " ", "{json}">> }

LineSamples ==
    { <<"##", " ", "kw_id", "fw:", "TC-A">>,
      <<"##", " ", "x">>,
      <<"##", " ", "TC-B", " ", "x">>,
      <<"**", "kw_id", "**", ":", " ", "TC-A">>,
      <<"**", "kw_title", "**", "fw:", "x">>,
      <<"**", "kw_expected", "**", ":", " ", "1", ".", " ", "a", " ", "2", ".", " ", "a">>,
      <<"x">>,
      <<>> }

MarkdownTexts == {JoinLines(ls) : ls \in SeqsUpTo(LineSamples, MaxLines) \ {<<>>}}

-----------------------------------------------------------------------------
(* The submit handler of app_ui *)

Download(kind, error, data, rows, doc) ==
    [kind |-> kind, error |-> error, data |-> data, rows |-> rows, doc |-> doc]

NoDownload == Download("none", FALSE, <<>>, <<>>, JNone)

AppIdle ==
    /\ full_response = <<>>
    /\ test_case_count = 1
    /\ output_format = "Excel"
    /\ result = <<>>
    /\ download = NoDownload

FmtIdle ==
    /\ text = <<>>
    /\ once = <<>>
    /\ twice = <<>>

V1Idle ==
    /\ testcase_json = <<>>
    /\ generated_testcases = <<>>
    /\ tier = "none"
    /\ stream_failed = FALSE

NoOutcome == [raised |-> FALSE, val |-> <<"-">>]

ParseIdle ==
    /\ source_text = <<>>
    /\ extracted = NoOutcome
    /\ parsed = NoOutcome

NoCall == [op |-> "none", requirement_id |-> "-", requirement_name |-> "-"]

\* what a call of BusinessRequirementCRUD returns: an int, None, a row as a
\* dict; kind "-" when nothing was returned
NoRow == [requirement_id |-> "-", requirement_name |-> "-"]
Value(kind, n, row) == [kind |-> kind, n |-> n, row |-> row]
NoValue == Value("-", 0, NoRow)

DbIdle ==
    /\ table = [exists |-> FALSE, rows |-> <<>>]
    /\ db_call = NoCall
    /\ db_error = FALSE
    /\ db_returned = NoValue

GenIdle ==
    /\ requirement_list = <<>>
    /\ response_content = <<>>
    /\ returned = NoOutcome

Init ==
    /\ pc = "idle"
    /\ payload = JNone
    /\ AppIdle
    /\ FmtIdle
    /\ V1Idle
    /\ ParseIdle
    /\ DbIdle
    /\ GenIdle

\* the button is pressed and the agent's stream ends
Submit ==
    /\ pc = "idle"
    /\ \/ /\ full_response' \in JsonTexts
          /\ payload' \in DocSamples
       \/ /\ full_response' \in MarkdownTexts
          /\ payload' = JNone
    /\ test_case_count' \in 1..MaxCount
    /\ output_format' \in {"Excel", "Markdown", "JSON"}
    /\ pc' = "streamed"
    /\ UNCHANGED <<result, download, fmtVars, v1Vars,
                   parseVars, dbVars, genVars>>

\* the end of generate_testcases
Validate ==
    /\ pc = "streamed"
    /\ \E formatted_response \in
               {validate_and_format_testcases(full_response, test_case_count, payload)} :
           IF formatted_response.raised
           THEN pc' = "except" /\ UNCHANGED result
           ELSE pc' = "validated" /\ result' = formatted_response.val
    /\ UNCHANGED <<full_response, payload, test_case_count, output_format,
                   download, fmtVars, v1Vars,
                   parseVars, dbVars, genVars>>

ExportMarkdown ==
    /\ pc = "validated"
    /\ output_format = "Markdown"
    /\ download' = Download("markdown", FALSE, result, <<>>, JNone)
    /\ pc' = "done"
    /\ UNCHANGED <<full_response, payload, test_case_count, output_format,
                   result, fmtVars, v1Vars,
                   parseVars, dbVars, genVars>>

ExportJSON ==
    /\ pc = "validated"
    /\ output_format = "JSON"
    /\ \E json_data \in {extract_json_from_text(result, payload)},
          json_str \in {markdown_to_json(result, payload)} :
           IF json_data.raised
           THEN pc' = "except" /\ UNCHANGED download
           ELSE IF json_data.val.truthy
           THEN pc' = "done" /\ download' = Download("json", FALSE, <<>>, <<>>, json_data.val)
           ELSE IF json_str.raised
           THEN pc' = "except" /\ UNCHANGED download
           ELSE IF json_str.val # <<>>
           THEN pc' = "done" /\ download' = Download("json", FALSE, <<>>, json_str.val, JNone)
           ELSE pc' = "done" /\ download' = Download("markdown", TRUE, result, <<>>, JNone)
    /\ UNCHANGED <<full_response, payload, test_case_count, output_format,
                   result, fmtVars, v1Vars,
                   parseVars, dbVars, genVars>>

ExportExcel ==
    /\ pc = "validated"
    /\ output_format = "Excel"
    /\ \E data \in {parse_test_cases_structured(result, payload)} :
           IF data.raised \/ data.val = <<>>
           THEN download' = Download("markdown", TRUE, result, <<>>, JNone)
           ELSE download' = Download("excel", FALSE, <<>>, data.val, JNone)
    /\ pc' = "done"
    /\ UNCHANGED <<full_response, payload, test_case_count, output_format,
                   result, fmtVars, v1Vars,
                   parseVars, dbVars, genVars>>

\* except Exception: the error is shown and the non-streaming retry fails too
ExceptHandler ==
    /\ pc = "except"
    /\ download' = Download("none", TRUE, <<>>, <<>>, JNone)
    /\ pc' = "done"
    /\ UNCHANGED <<full_response, payload, test_case_count, output_format,
                   result, fmtVars, v1Vars,
                   parseVars, dbVars, genVars>>

Next ==
    \/ Submit
    \/ Validate
    \/ ExportMarkdown
    \/ ExportJSON
    \/ ExportExcel
    \/ ExceptHandler

Spec == Init /\ [][Next]_vars

-----------------------------------------------------------------------------
(* Properties of the consistency check and of the export *)

Validated == pc = "validated"
Streamed == pc # "idle"

RawRows == parse_test_cases_structured(full_response, payload)
RawJson == extract_json_from_text(full_response, payload).val

EndsWith(s, suffix) ==
    Len(s) >= Len(suffix) /\ SubSeq(s, Len(s) - Len(suffix) + 1, Len(s)) = suffix

\* C1: consistency checking never alters records: the annotated text parses
\* to the same rows, field for field, as the raw text
C1_RecordsUnaltered ==
    Validated => parse_test_cases_structured(result, payload) = RawRows

\* C2: count_test_cases and parse_test_cases_structured return normally on
\* every response text, whatever the shape of the JSON it holds
C2_NeverRaises ==
    Streamed => /\ ~count_test_cases(full_response, payload).raised
                /\ ~RawRows.raised

\* C4: the count warning is appended exactly when the number of parsed rows
\* differs from the requested number, and it names both numbers
C4_CountWarning ==
    Validated =>
        LET n == Len(RawRows.val)
            counted == IF n # test_case_count
                       THEN full_response \o count_warning(n, test_case_count)
                       ELSE full_response
        IN result \in {counted, counted \o duplicate_warning}

\* rows of the raw text that share their identifier with another row
SharedIds ==
    /\ ~RawRows.raised
    /\ \E i, j \in 1..Len(RawRows.val) : i < j /\ RawRows.val[i].id = RawRows.val[j].id

\* the records the raw text holds: the elements of the "test_cases" list, or
\* the non-blank blocks with an identifier
SourceRecords ==
    IF has_test_cases(RawJson).val THEN Len(RawJson.items)
    ELSE LET blocks == blocks_from(split_lines(full_response), 1, <<>>) IN
         Cardinality({i \in 1..Len(blocks) :
                         strip(blocks[i]) # <<>> /\ block_id(blocks[i]) # Unspecified})

\* C5: the duplicate warning is appended exactly when two parsed rows share
\* an identifier, and then every row is still in the parsed collection
C5_DuplicateWarning ==
    pc \in {"validated", "except"} =>
        /\ SharedIds <=> (Validated /\ EndsWith(result, duplicate_warning))
        /\ SharedIds => Len(RawRows.val) = SourceRecords

\* C6: a warning never blocks the export: rows or JSON found in the raw
\* text are what the Excel and the JSON branch export from the annotated text
C6_WarningNeverBlocksExport ==
    (pc = "done" /\ download.kind # "none") =>
        /\ (output_format = "Excel" /\ RawRows.val # <<>>) =>
               (download.kind = "excel" /\ download.rows = RawRows.val)
        /\ (output_format = "JSON" /\ RawJson.truthy) =>
               (download.kind = "json" /\ download.doc = RawJson)
        /\ (output_format = "JSON" /\ RawRows.val # <<>>) => download.kind = "json"

RowKeys == {"id", "title", "level", "priority", "precondition", "steps", "expected_result"}

\* C7: every parsed row has the seven fields with a string value
C7_AllFieldsStrings ==
    (Streamed /\ ~RawRows.raised) =>
        \A i \in 1..Len(RawRows.val) : \A k \in RowKeys : RawRows.val[i][k].t = "str"

\* the text holds a "test_cases" list of objects
ListOfObjects ==
    /\ RawJson.t = "dict" /\ RawJson.has_tc /\ RawJson.tc.t = "list"
    /\ \A i \in 1..Len(RawJson.items) : RawJson.items[i].t = "dict"

\* an object all of whose fields, after the defaults, are strings
SchemaValid(tc) == \A k \in JsonKeys : get(tc, k).t = "str"

RECURSIVE SchemaValidOnes(_)
SchemaValidOnes(items) ==
    IF items = <<>> THEN <<>>
    ELSE IF SchemaValid(Head(items))
         THEN <<Head(items)>> \o SchemaValidOnes(Tail(items))
    ELSE SchemaValidOnes(Tail(items))

\* C8: markdown_to_json drops a record that violates the schema on its own
\* and keeps every other record of the batch, in order
C8_BadRecordDroppedAlone ==
    (Streamed /\ ListOfObjects) =>
        LET json_str == markdown_to_json(full_response, payload)
            kept == SchemaValidOnes(RawJson.items)
        IN /\ ~json_str.raised
           /\ Len(json_str.val) = Len(kept)
           /\ \A i \in 1..Len(kept) : json_str.val[i].case_id = get(kept[i], "case_id")

\* a well-formed document: a "test_cases" list of objects that carry a string
\* for each of the six keys
WellFormed ==
    /\ ListOfObjects
    /\ \A i \in 1..Len(RawJson.items) : \A k \in JsonKeys : RawJson.items[i].f[k].t = "str"

\* the row that repeats the input values of a record
SameValues(row, tc) ==
    /\ row.id = tc.f["case_id"]
    /\ row.title = tc.f["title"]
    /\ row.priority = tc.f["priority"]
    /\ row.precondition = tc.f["precondition"]

\* C10 as stated: the rows of a well-formed document repeat the six values
\* of each input record exactly
C10_RoundTripExact ==
    (Streamed /\ WellFormed) =>
        /\ ~RawRows.raised
        /\ Len(RawRows.val) = Len(RawJson.items)
        /\ \A i \in 1..Len(RawJson.items) :
               /\ SameValues(RawRows.val[i], RawJson.items[i])
               /\ RawRows.val[i].steps = RawJson.items[i].f["steps"]
               /\ RawRows.val[i].expected_result = RawJson.items[i].f["expected_result"]

\* C10 amended: one row per record, in order; id, title, priority and
\* precondition are the input values, steps and expected_result are the
\* input values after the numbered-line normalisation
C10_RoundTripNormalised ==
    (Streamed /\ WellFormed) =>
        /\ ~RawRows.raised
        /\ Len(RawRows.val) = Len(RawJson.items)
        /\ \A i \in 1..Len(RawJson.items) :
               /\ SameValues(RawRows.val[i], RawJson.items[i])
               /\ RawRows.val[i].steps =
                      Str(format_numbered_text(RawJson.items[i].f["steps"].s))
               /\ RawRows.val[i].expected_result =
                      Str(format_numbered_text(RawJson.items[i].f["expected_result"].s))

\* a well-formed document of two different records, one with inline numbering
C10_Witness ==
    /\ Validated
    /\ WellFormed
    /\ Len(RawJson.items) = 2
    /\ RawJson.items[1] # RawJson.items[2]
    /\ RawRows.val[1].steps # RawJson.items[1].f["steps"]

-----------------------------------------------------------------------------
(* app_ui_v1: parse_testcases_from_json *)

\* an object that holds, next to some of the six keys, a key whose value is
\* an object with an object in it: {..., "extra": {"a": {"b": 1}}}
DeepElem(f) == [t |-> "deep", f |-> f]
IsObject(e) == e.t \in {"dict", "deep"}

\* pydantic accepts an object as TestCase when the six keys are there and
\* hold a str; a further key is ignored
ValidCase(e) == IsObject(e) /\ \A k \in JsonKeys : e.f[k].t = "str"
AllValid(items) == \A i \in 1..Len(items) : ValidCase(items[i])

Cases(items) ==
    [i \in 1..Len(items) |->
        [case_id |-> items[i].f["case_id"], priority |-> items[i].f["priority"],
         title |-> items[i].f["title"], precondition |-> items[i].f["precondition"],
         steps |-> items[i].f["steps"], expected_result |-> items[i].f["expected_result"]]]

\* the objects among the elements
RECURSIVE DictItems(_)
DictItems(items) ==
    IF items = <<>> THEN <<>>
    ELSE IF IsObject(Head(items)) THEN <<Head(items)>> \o DictItems(Tail(items))
    ELSE DictItems(Tail(items))

\* the serialisation of the document holds a brace
HasBraces(doc) ==
    doc.t \in {"dict", "case"} \/ (doc.t = "list" /\ DictItems(doc.items) # <<>>)

Payloads(s) == {i \in 1..Len(s) : s[i] = "{json}"}

\* json.loads of the text cut from the first '{' to the last '}'
strict_loads(json_str, doc) ==
    LET json_text == strip(json_str)
        objects == DictItems(doc.items)
    IN IF Payloads(json_text) = {} \/ ~HasBraces(doc) THEN json_loads(json_text, doc)
       ELSE IF Cardinality(Payloads(json_text)) > 1 THEN Raised
       ELSE IF doc.t # "list" THEN Returned(doc)
       ELSE IF Len(objects) = 1 THEN Returned(JCase(objects[1]))
       ELSE Raised

\* TestCaseCollection.model_validate(data) for a dict with "test_cases"
model_validate(data) ==
    IF data.tc.t = "list" /\ AllValid(data.items) THEN Returned(Cases(data.items))
    ELSE Raised

\* TestCaseCollection(test_cases=data) for a list
collection_of(data) ==
    IF ~data.has_tc /\ AllValid(data.items) THEN Returned(Cases(data.items)) ELSE Raised

\* TestCaseCollection(test_cases=[data])
collection_of_one(data) ==
    IF data.t = "case" /\ ValidCase(data.items[1]) THEN Returned(Cases(data.items))
    ELSE Raised

\* the try block: the strict parse
strict_tier(json_str, doc) ==
    LET data == strict_loads(json_str, doc) IN
    IF data.raised THEN Raised
    ELSE IF data.val.t = "dict" /\ data.val.has_tc THEN model_validate(data.val)
    ELSE IF data.val.t = "list" THEN collection_of(data.val)
    ELSE collection_of_one(data.val)

\* what the object pattern finds in the elements: an object as it is, and of
\* an object with two levels of objects in it the object under its extra key
inner_objects(items) ==
    [i \in 1..Len(DictItems(items)) |->
        IF DictItems(items)[i].t = "deep" THEN JDictOther
        ELSE JCase(DictItems(items)[i])]

\* re.findall of the object pattern in one serialised document: the pattern
\* matches an object with at most one level of objects in it
objects_of(doc) ==
    IF doc.t = "dict" /\ \A i \in 1..Len(doc.items) : doc.items[i].t # "deep"
    THEN <<doc>>
    ELSE IF doc.t \in {"dict", "case", "list"} THEN inner_objects(doc.items)
    ELSE <<>>

\* re.findall of the array pattern in one serialised document
arrays_of(doc) ==
    IF doc.t = "dict" /\ doc.has_tc /\ doc.tc.t = "list" THEN <<JList(FALSE, doc.items)>>
    ELSE IF doc.t = "list" THEN <<doc>>
    ELSE <<>>

RECURSIVE Matches(_, _, _)
Matches(json_str, i, found) ==
    IF i > Len(json_str) THEN <<>>
    ELSE IF json_str[i] = "{json}" THEN found \o Matches(json_str, i + 1, found)
    ELSE Matches(json_str, i + 1, found)

\* what the loop over json_objects does with one of them
try_object(data) ==
    IF data.t = "case" /\ data.items[1].f["case_id"] # Missing THEN collection_of_one(data)
    ELSE IF data.t = "dict" /\ data.has_tc THEN model_validate(data)
    ELSE Raised

\* what the loop over json_arrays does with one of them
try_array(data) ==
    IF Len(data.items) > 0 \/ data.has_tc THEN collection_of(data) ELSE Raised

\* the first object that gives a collection
loose_object_tier(json_str, doc) ==
    LET json_objects == Matches(json_str, 1, objects_of(doc))
        I == {i \in 1..Len(json_objects) : ~try_object(json_objects[i]).raised}
    IN IF I = {} THEN Raised ELSE try_object(json_objects[Min(I)])

\* the first array that gives a collection
loose_array_tier(json_str, doc) ==
    LET json_arrays == Matches(json_str, 1, arrays_of(doc))
        I == {i \in 1..Len(json_arrays) : ~try_array(json_arrays[i]).raised}
    IN IF I = {} THEN Raised ELSE try_array(json_arrays[Min(I)])

\* the elements whose text matches case_id ... TC-
tc_case_ids(doc) ==
    LET objects == DictItems(doc.items) IN
    IF doc.t \in {"dict", "case", "list"}
    THEN SelectSeq(objects, LAMBDA e : e.f["case_id"].t = "str"
                                        /\ e.f["case_id"].s # <<>>
                                        /\ e.f["case_id"].s[1] \in {"TC-A", "TC-B"})
    ELSE <<>>

\* f"{i + 1:03d}"
pad3(n) ==
    IF n < 10 THEN <<"0", "0">> \o int_str(n)
    ELSE IF n < 100 THEN <<"0">> \o int_str(n)
    ELSE int_str(n)

\* the generated test case with the number left out of the identifier
generated_case_unnumbered(i) ==
    [case_id |-> Str(<<"TC-GEN-">>), priority |-> Str(<<"P1">>),
     title |-> Str(<<"generated_test_case", " ">> \o int_str(i)),
     precondition |-> Str(<<"system_runs">>),
     steps |-> Str(<<"1", ".", " ", "execute_steps">>),
     expected_result |-> Str(<<"as_expected">>)]

generated_case(i) ==
    [case_id |-> Str(<<"TC-GEN-">> \o pad3(i)), priority |-> Str(<<"P1">>),
     title |-> Str(<<"generated_test_case", " ">> \o int_str(i)),
     precondition |-> Str(<<"system_runs">>),
     steps |-> Str(<<"1", ".", " ", "execute_steps">>),
     expected_result |-> Str(<<"as_expected">>)]

\* one generated test case for each match of the case_id pattern
reconstruction_tier(json_str, doc) ==
    LET case_blocks == Matches(json_str, 1, tc_case_ids(doc)) IN
    [i \in 1..Len(case_blocks) |-> generated_case(i)]

Collection(t, test_cases) == [tier |-> t, test_cases |-> test_cases]

\* the tiers with the scan for arrays ahead of the scan for objects
parse_testcases_arrays_first(json_str, doc) ==
    LET strict == strict_tier(json_str, doc)
        objects == loose_object_tier(json_str, doc)
        arrays == loose_array_tier(json_str, doc)
        rebuilt == reconstruction_tier(json_str, doc)
    IN IF ~strict.raised THEN Collection("strict", strict.val)
       ELSE IF ~arrays.raised THEN Collection("loose_array", arrays.val)
       ELSE IF ~objects.raised THEN Collection("loose_object", objects.val)
       ELSE IF rebuilt # <<>> THEN Collection("reconstructed", rebuilt)
       ELSE Collection("empty", <<>>)

parse_testcases_from_json(json_str, doc) ==
    LET strict == strict_tier(json_str, doc)
        objects == loose_object_tier(json_str, doc)
        arrays == loose_array_tier(json_str, doc)
        rebuilt == reconstruction_tier(json_str, doc)
    IN IF ~strict.raised THEN Collection("strict", strict.val)
       ELSE IF ~objects.raised THEN Collection("loose_object", objects.val)
       ELSE IF ~arrays.raised THEN Collection("loose_array", arrays.val)
       ELSE IF rebuilt # <<>> THEN Collection("reconstructed", rebuilt)
       ELSE Collection("empty", <<>>)

-----------------------------------------------------------------------------
(* app_ui_v1: the generate button *)

\* the JSON text generate_testcases returns when the stream fails
ErrorCase ==
    DictElem([case_id |-> Str(<<"TC-ERR-001">>), priority |-> Str(<<"P1">>),
              title |-> Str(<<"generation_failed">>),
              precondition |-> Str(<<"system_runs">>),
              steps |-> Str(<<"1", ".", " ", "try_to_generate">>),
              expected_result |-> Str(<<"valid_test_cases">>)])

V1Texts ==
    { <<"{json}">>,
      <<"[[...]]">>,
      <<"~~~json", "\n", "{json}", "\n", "~~~">>,
      <<"x", " ", "{json}", " ", "x">>,
      <<"{json}", "\n", "{json}">> }

\* objects with a nested extra key, and a plain one to stand next to them
DeepSamples ==
    { DeepElem([Plain EXCEPT !["case_id"] = Str(<<"TC-A">>)]),
      DeepElem([Plain EXCEPT !["case_id"] = Str(<<"TC-B">>), !["title"] = Str(<<"x">>)]),
      DictElem([Plain EXCEPT !["case_id"] = Str(<<"TC-A">>), !["steps"] = Str(Inline)]) }

V1Docs ==
    DocSamples
      \cup {JCase(e) : e \in (ElemSamples \ {NonDictElem}) \cup DeepSamples}
      \cup {JList(FALSE, items) : items \in SeqsUpTo(ElemSamples, MaxCases)}
      \cup {JList(FALSE, items) : items \in SeqsUpTo(DeepSamples, MaxCases)}
      \cup {JTestCases(items) : items \in SeqsUpTo(DeepSamples, MaxCases)}

V1Init ==
    /\ pc = "v1_idle"
    /\ payload = JNone
    /\ AppIdle
    /\ FmtIdle
    /\ V1Idle
    /\ ParseIdle
    /\ DbIdle
    /\ GenIdle

\* generate_testcases: the stream ends, or fails and the except branch
\* answers with its own document
V1Generate ==
    /\ pc = "v1_idle"
    /\ \/ /\ testcase_json' \in V1Texts
          /\ payload' \in V1Docs
          /\ stream_failed' = FALSE
       \/ /\ testcase_json' \in MarkdownTexts
          /\ payload' = JNone
          /\ stream_failed' = FALSE
       \/ /\ testcase_json' = <<"\n", " ", "{json}", "\n", " ">>
          /\ payload' = JTestCases(<<ErrorCase>>)
          /\ stream_failed' = TRUE
    /\ pc' = "v1_generated"
    /\ UNCHANGED <<generated_testcases, tier, appVars, fmtVars,
                   parseVars, dbVars, genVars>>

\* testcases = parse_testcases_from_json(testcase_json)
V1Parse ==
    /\ pc = "v1_generated"
    /\ LET testcases == parse_testcases_from_json(testcase_json, payload) IN
       /\ generated_testcases' = testcases.test_cases
       /\ tier' = testcases.tier
    /\ pc' = "v1_done"
    /\ UNCHANGED <<testcase_json, stream_failed, payload, appVars, fmtVars,
                   parseVars, dbVars, genVars>>

V1Next == V1Generate \/ V1Parse

SpecV1 == V1Init /\ [][V1Next]_vars

\* the input is a JSON object whose "test_cases" list holds objects
V1ListOfObjects ==
    /\ Cardinality(Payloads(testcase_json)) = 1
    /\ payload.t = "dict" /\ payload.has_tc /\ payload.tc.t = "list"
    /\ \A i \in 1..Len(payload.items) : payload.items[i].t = "dict"

RECURSIVE ValidItems(_)
ValidItems(items) ==
    IF items = <<>> THEN <<>>
    ELSE IF ValidCase(Head(items)) THEN <<Head(items)>> \o ValidItems(Tail(items))
    ELSE ValidItems(Tail(items))

\* C9: when one record of the "test_cases" list violates the schema, the
\* collection is exactly the other records with their own field values
C9_ValidRecordsSurvive ==
    (pc = "v1_done" /\ V1ListOfObjects /\ Len(payload.items) >= 2
       /\ Len(ValidItems(payload.items)) = Len(payload.items) - 1) =>
        generated_testcases = Cases(ValidItems(payload.items))

\* C15: a failed stream reaches the caller as a failure: the parser is not
\* run on the substitute text and no collection is stored for the request
C15_FailureIsDistinct ==
    (pc = "v1_done" /\ stream_failed) => (tier = "none" /\ generated_testcases = <<>>)

\* what a tier gave: nothing when it failed
Gave(outcome) == IF outcome.raised THEN <<>> ELSE <<outcome.val>>

\* the tiers in their order, each with what it gave on the text at hand; the
\* reconstruction fails when it finds no case_id, the empty collection is last
TierResults ==
    << <<"strict", Gave(strict_tier(testcase_json, payload))>>,
       <<"loose_object", Gave(loose_object_tier(testcase_json, payload))>>,
       <<"loose_array", Gave(loose_array_tier(testcase_json, payload))>>,
       <<"reconstructed",
         IF reconstruction_tier(testcase_json, payload) = <<>> THEN <<>>
         ELSE <<reconstruction_tier(testcase_json, payload)>> >>,
       <<"empty", << <<>> >> >> >>

\* C26: the call returns a collection for every text, and the collection is
\* the one of the first tier, in the fixed order, that succeeds: every tier
\* before it failed
C26_TiersInOrder ==
    pc = "v1_done" =>
        \E k \in 1..Len(TierResults) :
            /\ tier = TierResults[k][1]
            /\ TierResults[k][2] = <<generated_testcases>>
            /\ \A j \in 1..(k - 1) : TierResults[j][2] = <<>>

\* the scan for arrays gave the collection after the strict parse and the
\* scan for objects had failed
C26_Witness ==
    pc = "v1_done" /\ tier = "loose_array" /\ Len(generated_testcases) = 2

\* C27: of a text that is a JSON array of schema-valid test cases the
\* collection holds exactly these test cases, in the order of the array
C27_ArrayReturnedWhole ==
    (pc = "v1_done" /\ strip(testcase_json) = <<"{json}">>
       /\ payload.t = "list" /\ ~payload.has_tc
       /\ Len(payload.items) >= 1 /\ AllValid(payload.items)) =>
        generated_testcases = Cases(payload.items)

\* the occurrences in the text of a case_id key with a TC- value: those of
\* the document, once for each time the text holds the document
CaseIdOccurrences ==
    Cardinality(Payloads(testcase_json))
      * Cardinality({i \in 1..Len(payload.items) :
                        /\ IsObject(payload.items[i])
                        /\ payload.items[i].f["case_id"].t = "str"
                        /\ payload.items[i].f["case_id"].s # <<>>
                        /\ payload.items[i].f["case_id"].s[1]
                              \in {"TC-A", "TC-B", "TC-ERR-001"}})

\* C28: when the strict parse and both scans failed, the collection holds one
\* test case for each occurrence of a case_id key with a TC- value, the i-th
\* with the identifier TC-GEN-00i, no two with the same identifier, and it is
\* empty when there is no occurrence
C28_ReconstructionNumbers ==
    (pc = "v1_done" /\ tier \in {"reconstructed", "empty"}) =>
        /\ Len(generated_testcases) = CaseIdOccurrences
        /\ \A i \in 1..Len(generated_testcases) :
               generated_testcases[i].case_id
                 = Str(<<"TC-GEN-", "0", "0", Digits[i + 1]>>)
        /\ \A i, j \in 1..Len(generated_testcases) :
               i # j => generated_testcases[i].case_id # generated_testcases[j].case_id

\* the reconstruction gave more than one test case
C28_Witness ==
    pc = "v1_done" /\ tier = "reconstructed" /\ Len(generated_testcases) >= 2

-----------------------------------------------------------------------------
(* The JSON download of app_ui *)

\* C16: every record of the JSON download has passed the TestCase schema:
\* the six fields are there and are strings
C16_JsonExportValidated ==
    (pc = "done" /\ download.kind = "json") =>
        IF download.doc # JNone
        THEN /\ download.doc.t = "dict" /\ download.doc.has_tc
             /\ download.doc.tc.t = "list"
             /\ AllValid(download.doc.items)
        ELSE \A i \in 1..Len(download.rows) :
                 \A k \in JsonKeys : download.rows[i][k].t = "str"

-----------------------------------------------------------------------------
(* extract_json_from_text and parse_test_cases_structured on their own *)

\* lines of a markdown answer: headings, 用例ID lines with and without a
\* value, field lines with either colon, a label without colon, a numbered
\* line, a line of plain words
ParseLines ==
    { <<"##", " ", "x">>,
      <<"##", " ", "TC-B">>,
      <<"##", " ", "TCX">>,
      <<"TC-A", " ", "x">>,
      <<"**", "kw_id", "**", ":", " ", "TC-A">>,
      <<"**", "kw_id", "**", "fw:", "TC-B", ":", "x">>,
      <<"**", "kw_id", "**", ":">>,
      <<"**", "kw_id", "**">>,
      <<"**", "kw_title", "**", "fw:", "a", ":", "x">>,
      <<"**", "kw_title", "**", ":", " ", "x">>,
      <<"**", "kw_steps", "**">>,
      <<"1", ".", " ", "a">> }

ParseTexts == {JoinLines(ls) : ls \in SeqsUpTo(ParseLines, MaxLines) \ {<<>>}}

\* documents an answer may hold, and text nested beyond the recursion limit
ParseDocs ==
    {JTestCases(items) : items \in SeqsUpTo(ElemSamples, 1)}
      \cup {JNone, JNumber, JEmptyDict, JDictOther, JList(FALSE, <<>>)}

DeepTexts ==
    { <<"[[...]]">>,
      <<"~~~json", "\n", "[[...]]", "\n", "~~~">>,
      <<"x", " ", "[[...]]">> }

\* answers with a fenced block and more: a fence that holds no JSON before
\* the fence of the document, the fenced document before a fenced number, and
\* the fenced document before a markdown test case
FencedTexts ==
    { <<"~~~json", "\n", "x", "\n", "~~~", "\n",
        "~~~json", "\n", "{json}", "\n", "~~~">>,
      <<"~~~json", "\n", "{json}", "\n", "~~~", "\n",
        "~~~json", "\n", "1", "\n", "~~~">>,
      <<"~~~json", "\n", "{json}", "\n", "~~~", "\n",
        "##", " ", "x", "\n", "**", "kw_id", "**", ":", " ", "TC-A">> }

ParseInit ==
    /\ pc = "parse"
    /\ \/ source_text \in ParseTexts /\ payload = JNone
       \/ source_text \in JsonTexts \cup FencedTexts /\ payload \in ParseDocs
       \/ source_text \in DeepTexts /\ payload = JNone
    /\ extracted = NoOutcome
    /\ parsed = NoOutcome
    /\ AppIdle
    /\ FmtIdle
    /\ V1Idle
    /\ DbIdle
    /\ GenIdle

\* json_data = extract_json_from_text(markdown_text)
Extract ==
    /\ pc = "parse"
    /\ extracted' = extract_json_from_text(source_text, payload)
    /\ pc' = "extracted"
    /\ UNCHANGED <<source_text, parsed, payload, appVars, fmtVars, v1Vars, dbVars, genVars>>

\* data = parse_test_cases_structured(markdown_text)
Parse ==
    /\ pc = "extracted"
    /\ parsed' = parse_test_cases_structured(source_text, payload)
    /\ pc' = "parsed"
    /\ UNCHANGED <<source_text, extracted, payload, appVars, fmtVars, v1Vars, dbVars, genVars>>

ParseNext == Extract \/ Parse

SpecParse == ParseInit /\ [][ParseNext]_vars

-----------------------------------------------------------------------------
(* Properties of the extraction and of the segmenting parser *)

Parsed == pc = "parsed"

\* extract_json_from_text found no JSON in the text
NoJson == extracted = Returned(JNone)

SourceLines == split_lines(source_text)
HeadingLines == {i \in 1..Len(SourceLines) : is_heading(SourceLines[i])}

\* the lines of the block that the heading at line h opens
BlockLines(h) ==
    {i \in h..Len(SourceLines) : \A k \in (h + 1)..i : k \notin HeadingLines}

\* where the bolded label kw stands on a line, 0 when it does not
LabelAt(line, kw) ==
    LET P == {p \in 1..(Len(line) - 2) :
                 line[p] = "**" /\ line[p + 1] = kw /\ line[p + 2] = "**"}
    IN IF P = {} THEN 0 ELSE Min(P)

\* the label kw is followed by its own colon, ASCII or full-width
HasOwnColon(line, kw) ==
    /\ LabelAt(line, kw) # 0
    /\ LabelAt(line, kw) + 3 <= Len(line)
    /\ line[LabelAt(line, kw) + 3] \in {":", "fw:"}

\* the text after the label's own colon
ValueAfterLabel(line, kw) == strip(SubSeq(line, LabelAt(line, kw) + 4, Len(line)))

\* the line gives a non-empty identifier after the 用例ID label
GivesId(line) == HasOwnColon(line, "kw_id") /\ ValueAfterLabel(line, "kw_id") # <<>>

\* s occurs in t as a run of consecutive tokens
OccursIn(s, t) == \E p \in 0..(Len(t) - Len(s)) : SubSeq(t, p + 1, p + Len(s)) = s

\* the rows can be assigned to blocks of increasing position, each row to a
\* block that holds its identifier
RECURSIVE InOrderOf(_, _)
InOrderOf(rows, blocks) ==
    IF rows = <<>> THEN TRUE
    ELSE IF blocks = <<>> THEN FALSE
    ELSE \/ /\ Head(rows).id.t = "str"
            /\ OccursIn(Head(rows).id.s, Head(blocks))
            /\ InOrderOf(Tail(rows), Tail(blocks))
         \/ InOrderOf(rows, Tail(blocks))

\* C11: fallback completeness: a text without JSON that has a heading block
\* with a line giving a non-empty identifier after the 用例ID label yields
\* at least one record, and the records follow the order of their blocks
C11_FallbackCompleteness ==
    (Parsed /\ NoJson
       /\ \E h \in HeadingLines : \E i \in BlockLines(h) : GivesId(SourceLines[i])) =>
        /\ ~parsed.raised
        /\ Len(parsed.val) >= 1
        /\ InOrderOf(parsed.val, blocks_from(SourceLines, 1, <<>>))

\* C12: a text with no JSON and no line whose trimmed content starts with
\* '## ' parses to the empty list, without an exception
C12_NoHeadingNoRecord ==
    (Parsed /\ NoJson /\ HeadingLines = {}) => parsed = Returned(<<>>)

\* C13: extract_json_from_text never raises: it returns the parsed value or
\* the not-found signal None
C13_ExtractNeverRaises ==
    pc \in {"extracted", "parsed"} => ~extracted.raised

\* C14: every record of the segmenting path carries an identifier found in
\* its block: a non-empty string that is not the sentinel
C14_IdentifierFound ==
    (Parsed /\ NoJson /\ ~parsed.raised) =>
        \A i \in 1..Len(parsed.val) :
            /\ parsed.val[i].id.t = "str"
            /\ parsed.val[i].id.s # <<>>
            /\ parsed.val[i].id # Unspecified
            /\ OccursIn(parsed.val[i].id.s, source_text)

\* the text from its first heading line on, nothing when it has no heading
WithoutPreamble ==
    IF HeadingLines = {} THEN <<>>
    ELSE JoinLines(SubSeq(SourceLines, Min(HeadingLines), Len(SourceLines)))

\* C18: text before the first heading is discarded: it forms no block and
\* gives no record and no field value
C18_PreambleDiscarded ==
    (Parsed /\ NoJson) => parsed = parse_test_cases_structured(WithoutPreamble, JNone)

\* the bolded labels of the vocabulary, the identifier label included
Labels == {"kw_id", "kw_title", "kw_level", "kw_priority", "kw_precondition",
           "kw_steps", "kw_expected"}

FieldKeys == {"title", "level", "priority", "precondition", "steps", "expected_result"}

\* C19: a field value ends before the next line that carries a recognized
\* label: no line of a field value bears a label, the identifier label included
C19_ValueEndsAtNextLabel ==
    (Parsed /\ NoJson /\ ~parsed.raised) =>
        \A i \in 1..Len(parsed.val) : \A k \in FieldKeys :
            LET value_lines == split_lines(parsed.val[i][k].s) IN
            \A n \in 1..Len(value_lines) : \A kw \in Labels :
                LabelAt(value_lines[n], kw) = 0

\* the text is one block: a heading line and the lines below it
OneBlock == Len(SourceLines) >= 2 /\ HeadingLines = {1}

\* the first line that carries the bolded label kw, 0 when there is none
LabelLine(kw) ==
    LET I == {i \in 1..Len(SourceLines) : LabelAt(SourceLines[i], kw) # 0}
    IN IF I = {} THEN 0 ELSE Min(I)

\* what a label line contributes: the text after the label's own colon,
\* nothing when the label has no colon
Contribution(line, kw) ==
    IF HasOwnColon(line, kw) THEN ValueAfterLabel(line, kw) ELSE <<>>

\* C20: on a label line the value starts right after the label's own colon,
\* ASCII or full-width, and a label line without colon contributes nothing:
\* checked on the 用例ID line and on a title or steps line that ends a block
C20_ValueAfterOwnColon ==
    (Parsed /\ NoJson /\ OneBlock /\ ~parsed.raised) =>
        /\ (LabelLine("kw_id") # 0 /\ GivesId(SourceLines[LabelLine("kw_id")])) =>
               /\ Len(parsed.val) = 1
               /\ parsed.val[1].id =
                      Str(ValueAfterLabel(SourceLines[LabelLine("kw_id")], "kw_id"))
        /\ (Len(parsed.val) = 1 /\ LabelLine("kw_title") = Len(SourceLines)) =>
               parsed.val[1].title =
                   Str(Contribution(SourceLines[Len(SourceLines)], "kw_title"))
        /\ (Len(parsed.val) = 1 /\ LabelLine("kw_steps") = Len(SourceLines)) =>
               parsed.val[1].steps =
                   Str(format_numbered_text(
                           Contribution(SourceLines[Len(SourceLines)], "kw_steps")))

\* the words of the text that start with the prefix TC, line after line
RECURSIVE TCWordsFrom(_, _)
TCWordsFrom(lines, i) ==
    IF i > Len(lines) THEN <<>>
    ELSE SelectSeq(words(lines[i]), LAMBDA w : w[1] \in TCWords)
           \o TCWordsFrom(lines, i + 1)

\* C21: a block without 用例ID field takes as identifier the first word that
\* starts with TC, on its first line or else on any other line, and is retained
C21_IdentifierFallback ==
    (Parsed /\ NoJson /\ OneBlock /\ ~parsed.raised
       /\ (\A i \in 1..Len(SourceLines) : ~Has(SourceLines[i], "kw_id"))
       /\ TCWordsFrom(SourceLines, 1) # <<>>) =>
        /\ Len(parsed.val) = 1
        /\ parsed.val[1].id = Str(TCWordsFrom(SourceLines, 1)[1])

\* the fenced regions of the text from position p on, left to right: what
\* stands between a fence opener and the next fence
RECURSIVE FencedRegions(_, _)
FencedRegions(s, p) ==
    LET o == Find(s, {"~~~json"}, p)
        c == IF o = 0 THEN 0 ELSE Find(s, {"~~~json", "~~~"}, o + 1)
    IN IF c = 0 THEN <<>>
       ELSE <<SubSeq(s, o + 1, c - 1)>> \o FencedRegions(s, c + 1)

\* what a region parses to; not-found when it is not valid JSON
ParseOf(region) ==
    LET r == json_loads(region, payload) IN
    IF r.raised THEN Returned(JNone) ELSE r

\* C23: of a text with a fence opener followed by a closing fence the result is
\* the parse of what stands between them, and not-found when that is not valid
\* JSON, whatever the rest of the text holds
C23_FencedRegionOnly ==
    (pc \in {"extracted", "parsed"} /\ FencedRegions(source_text, 1) # <<>>) =>
        extracted = ParseOf(FencedRegions(source_text, 1)[1])

\* C24: of several fenced regions the first one, left to right, that parses is
\* the result
C24_FirstParsingCandidate ==
    LET regions == FencedRegions(source_text, 1)
        good == {i \in 1..Len(regions) : ~json_loads(regions[i], payload).raised}
    IN (pc \in {"extracted", "parsed"} /\ Len(regions) >= 2 /\ good # {}) =>
           extracted = ParseOf(regions[Min(good)])

\* C25: when the extraction returns a JSON value the records are those of that
\* value alone: the text around the document adds no record
C25_JsonAloneWhenFound ==
    (Parsed /\ ~extracted.raised /\ ~NoJson) =>
        parsed = parse_test_cases_structured(<<"{json}">>, extracted.val)

-----------------------------------------------------------------------------
(* db: the table business_requirement and BusinessRequirementCRUD *)

\* requirement_id is a str (BusinessRequirement.requirement_id); the column
\* requirement_name stands for the NOT NULL columns and may be handed None
RequirementIds == {"REQ-1", "REQ-2", "REQ-3"}
Null == "NULL"
RequirementNames == {"login", "logout", Null}

Requirement(id, name) == [requirement_id |-> id, requirement_name |-> name]

Call(op, id, name) == [op |-> op, requirement_id |-> id, requirement_name |-> name]

\* the table: whether CREATE TABLE has run, and its rows
Table(exists, rows) == [exists |-> exists, rows |-> rows]

\* the outcome of a call: whether it raised, the table afterwards, and what
\* it returned
Outcome(raised, tbl, value) == [raised |-> raised, tbl |-> tbl, value |-> value]

\* cursor.lastrowid: the number sqlite gave the inserted row; no statement of
\* the class reads it
LastRowId == Value("lastrowid", 0, NoRow)
\* cursor.rowcount
RowCount(n) == Value("int", n, NoRow)
NoneValue == Value("None", 0, NoRow)

\* a row with this requirement_id is in the table
HasId(tbl, id) == \E i \in 1..Len(tbl.rows) : tbl.rows[i].requirement_id = id

\* INSERT with the PRIMARY KEY constraint left out
create_without_primary_key(tbl, requirement) ==
    IF ~tbl.exists THEN Outcome(TRUE, tbl, NoValue)
    ELSE IF requirement.requirement_name = Null THEN Outcome(TRUE, tbl, NoValue)
    ELSE Outcome(FALSE, Table(TRUE, Append(tbl.rows, requirement)), LastRowId)

\* INSERT INTO business_requirement: OperationalError without the table,
\* IntegrityError on a taken PRIMARY KEY or a NULL in a NOT NULL column; the
\* connection's context manager rolls the statement back and create re-raises
create(tbl, requirement) ==
    IF ~tbl.exists THEN Outcome(TRUE, tbl, NoValue)
    ELSE IF HasId(tbl, requirement.requirement_id) THEN Outcome(TRUE, tbl, NoValue)
    ELSE IF requirement.requirement_name = Null THEN Outcome(TRUE, tbl, NoValue)
    ELSE Outcome(FALSE, Table(TRUE, Append(tbl.rows, requirement)), LastRowId)

\* SELECT * ... WHERE requirement_id = ?: the row as a dict, None when there
\* is none and when sqlite3 raises for want of the table
read_by_id(tbl, id) ==
    LET I == {i \in 1..Len(tbl.rows) : tbl.rows[i].requirement_id = id} IN
    IF ~tbl.exists \/ I = {} THEN Outcome(FALSE, tbl, NoneValue)
    ELSE Outcome(FALSE, tbl, Value("dict", 0, tbl.rows[Min(I)]))

\* the rows that WHERE requirement_id = ? selects
matching(tbl, id) == {i \in 1..Len(tbl.rows) : tbl.rows[i].requirement_id = id}

\* UPDATE that inserts the row when the WHERE clause selects none
update_or_insert(tbl, requirement) ==
    IF ~tbl.exists THEN Outcome(TRUE, tbl, NoValue)
    ELSE IF requirement.requirement_name = Null THEN Outcome(TRUE, tbl, NoValue)
    ELSE IF matching(tbl, requirement.requirement_id) = {}
         THEN Outcome(FALSE, Table(TRUE, Append(tbl.rows, requirement)), RowCount(1))
    ELSE Outcome(FALSE,
                 Table(TRUE, [i \in 1..Len(tbl.rows) |->
                                 IF tbl.rows[i].requirement_id = requirement.requirement_id
                                 THEN requirement ELSE tbl.rows[i]]),
                 RowCount(Cardinality(matching(tbl, requirement.requirement_id))))

\* UPDATE ... WHERE requirement_id = ?: the key column is not in the SET list;
\* returns cursor.rowcount
update(tbl, requirement) ==
    IF ~tbl.exists THEN Outcome(TRUE, tbl, NoValue)
    ELSE IF HasId(tbl, requirement.requirement_id) /\ requirement.requirement_name = Null
         THEN Outcome(TRUE, tbl, NoValue)
    ELSE Outcome(FALSE,
                 Table(TRUE, [i \in 1..Len(tbl.rows) |->
                                 IF tbl.rows[i].requirement_id = requirement.requirement_id
                                 THEN requirement ELSE tbl.rows[i]]),
                 RowCount(Cardinality(matching(tbl, requirement.requirement_id))))

\* DELETE FROM business_requirement WHERE requirement_id = ?; returns
\* cursor.rowcount
delete(tbl, id) ==
    IF ~tbl.exists THEN Outcome(TRUE, tbl, NoValue)
    ELSE Outcome(FALSE, Table(TRUE, SelectSeq(tbl.rows, LAMBDA r : r.requirement_id # id)),
                 RowCount(Cardinality(matching(tbl, id))))

DbInit ==
    /\ pc = "db"
    /\ payload = JNone
    /\ AppIdle
    /\ FmtIdle
    /\ V1Idle
    /\ ParseIdle
    /\ DbIdle
    /\ GenIdle

\* CREATE TABLE IF NOT EXISTS business_requirement
InitializeDatabase ==
    /\ pc = "db"
    /\ table' = Table(TRUE, table.rows)
    /\ db_call' = Call("initialize_database", "-", "-")
    /\ db_error' = FALSE
    /\ db_returned' = NoValue
    /\ UNCHANGED <<pc, payload, appVars, fmtVars, v1Vars, parseVars, genVars>>

\* the statement ran: the rows and whether it raised
Ran(call, outcome) ==
    /\ table' = outcome.tbl
    /\ db_call' = call
    /\ db_error' = outcome.raised
    /\ db_returned' = outcome.value
    /\ UNCHANGED <<pc, payload, appVars, fmtVars, v1Vars, parseVars, genVars>>

Create ==
    /\ pc = "db"
    /\ \E id \in RequirementIds, name \in RequirementNames :
           Ran(Call("create", id, name), create(table, Requirement(id, name)))

Update ==
    /\ pc = "db"
    /\ \E id \in RequirementIds, name \in RequirementNames :
           Ran(Call("update", id, name), update(table, Requirement(id, name)))

Delete ==
    /\ pc = "db"
    /\ \E id \in RequirementIds :
           Ran(Call("delete", id, "-"), delete(table, id))

ReadById ==
    /\ pc = "db"
    /\ \E id \in RequirementIds :
           Ran(Call("read_by_id", id, "-"), read_by_id(table, id))

DbNext == InitializeDatabase \/ Create \/ Update \/ Delete \/ ReadById

SpecDb == DbInit /\ [][DbNext]_vars

\* no two rows share a requirement_id
UniqueIds ==
    \A i, j \in 1..Len(table.rows) :
        i # j => table.rows[i].requirement_id # table.rows[j].requirement_id

\* C17: create with a requirement_id that is in the table raises and leaves
\* the table unchanged, and no two rows ever share a requirement_id
C17_KeyedByRequirementId ==
    /\ []UniqueIds
    /\ [][(db_call'.op = "create" /\ HasId(table, db_call'.requirement_id))
            => (db_error' /\ table' = table)]_vars

\* a create was refused for its requirement_id alone, in a table of two rows
C17_Witness ==
    /\ db_call.op = "create"
    /\ db_call.requirement_name # Null
    /\ db_error
    /\ Len(table.rows) = 2
    /\ HasId(table, db_call.requirement_id)

RowIds(tbl) == [i \in 1..Len(tbl.rows) |-> tbl.rows[i].requirement_id]

\* update or delete is called with a requirement_id that the table lacks
MissingIdCall ==
    /\ db_call'.op \in {"update", "delete"}
    /\ table.exists
    /\ ~HasId(table, db_call'.requirement_id)

\* C30: update and delete with a requirement_id that is not in the table
\* return 0 and leave the table as it is; update with one that is there
\* changes no other row and no requirement_id; after delete the
\* requirement_id is gone, read_by_id returns None exactly for a
\* requirement_id that is not there, and only create brings one in
C30_UpdateDeleteFrame ==
    /\ [][MissingIdCall =>
            (~db_error' /\ db_returned' = RowCount(0) /\ table' = table)]_vars
    /\ [][db_call'.op = "update" =>
            /\ RowIds(table') = RowIds(table)
            /\ \A i \in 1..Len(table.rows) :
                   table.rows[i].requirement_id # db_call'.requirement_id
                     => table'.rows[i] = table.rows[i]]_vars
    /\ [][db_call'.op = "delete" => ~HasId(table', db_call'.requirement_id)]_vars
    /\ [](db_call.op = "read_by_id" =>
            (db_returned = NoneValue <=> ~HasId(table, db_call.requirement_id)))
    /\ [][\A id \in RequirementIds :
             (HasId(table', id) /\ ~HasId(table, id))
               => (db_call'.op = "create" /\ db_call'.requirement_id = id)]_vars

\* an update with a requirement_id that is not among the two rows returned 0
C30_Witness ==
    /\ db_call.op = "update"
    /\ db_call.requirement_name # Null
    /\ ~db_error
    /\ db_returned = RowCount(0)
    /\ Len(table.rows) = 2
    /\ ~HasId(table, db_call.requirement_id)

-----------------------------------------------------------------------------
(* test_case_generator: TestCaseGeneratorService._generate_test_cases_async *)

\* a JSON value of the agent's answer: a string with its tokens, a number,
\* null, an array with its items, an object with its <<key, value>> pairs in
\* the order of the text
GValue(t, s, items, pairs) == [t |-> t, s |-> s, items |-> items, pairs |-> pairs]
GStr(s) == GValue("str", s, <<>>, <<>>)
GNum == GValue("num", <<>>, <<>>, <<>>)
GNull == GValue("null", <<>>, <<>>, <<>>)
GArray(items) == GValue("array", <<>>, items, <<>>)
GObject(pairs) == GValue("object", <<>>, <<>>, pairs)

\* key in data, data[key]
HasKey(data, key) == \E i \in 1..Len(data.pairs) : data.pairs[i][1] = key
Get(data, key) ==
    data.pairs[Min({i \in 1..Len(data.pairs) : data.pairs[i][1] = key})][2]

\* the serialisation of the value holds a brace
RECURSIVE HasBrace(_)
HasBrace(v) ==
    \/ v.t = "object"
    \/ v.t = "array" /\ \E i \in 1..Len(v.items) : HasBrace(v.items[i])

\* json.loads of the serialisation cut from its first '{' to its last '}':
\* the cut is valid JSON when the two braces are those of one object
RECURSIVE brace_slice(_)
brace_slice(v) ==
    IF v.t = "object" THEN Returned(v)
    ELSE LET B == {i \in 1..Len(v.items) : HasBrace(v.items[i])} IN
         IF Cardinality(B) = 1 THEN brace_slice(v.items[Min(B)])
         ELSE JSONDecodeError

\* test_cases_data = json.loads(content[json_start:json_end])
test_cases_data(content, doc) ==
    IF Cardinality(Payloads(content)) = 1 THEN brace_slice(doc) ELSE JSONDecodeError

\* str(uuid.uuid4())[:3].upper()
UuidPrefixes == {"0A1", "F3B"}

\* the test case that stands in for a requirement
basic_test_case(req, uuid) ==
    GObject(<< <<"case_id", GStr(<<"TC-", uuid>>)>>,
               <<"case_name", GStr(<<"test", " ", req.requirement_name>>)>>,
               <<"related_requirement", GStr(<<req.requirement_id>>)>>,
               <<"priority", GStr(<<"medium">>)>>,
               <<"preconditions", GStr(<<"environment_ready">>)>>,
               <<"steps", GStr(<<"1", ".", " ", "prepare", "\n", "2", ".", " ", "execute",
                                 "\n", "3", ".", " ", "verify">>)>>,
               <<"expected_results", GStr(<<"meets_acceptance_criteria">>)>>,
               <<"test_type", GStr(<<"functional_test">>)>> >>)

basic_test_cases(requirements, uuids) ==
    GArray([i \in 1..Len(requirements) |-> basic_test_case(requirements[i], uuids[i])])

\* the keys of the object whose value is a list
list_keys(data) == {i \in 1..Len(data.pairs) : data.pairs[i][2].t = "array"}

\* what the object gives: data["test_cases"], or the value of the first key
\* that holds a list, or nothing
from_object(data, basic) ==
    IF HasKey(data, "test_cases") THEN Returned(Get(data, "test_cases"))
    ELSE IF list_keys(data) # {} THEN Returned(data.pairs[Min(list_keys(data))][2])
    ELSE Returned(basic)

\* the statements after the agent's response: the try block with its returns,
\* and the basic test cases after a failed find and in the except branch
_generate_test_cases_async(content, doc, requirements, uuids) ==
    LET basic == basic_test_cases(requirements, uuids)
        data == test_cases_data(content, doc)
    IN IF Payloads(content) = {} \/ ~HasBrace(doc) THEN Returned(basic)
       ELSE IF data.raised THEN Returned(basic)
       ELSE IF data.val.t = "array" THEN data
       ELSE from_object(data.val, basic)

\* what the agent may answer
CaseA == GObject(<< <<"case_id", GStr(<<"TC-001">>)>> >>)
CaseB == GObject(<< <<"case_id", GStr(<<"TC-002">>)>>,
                    <<"steps", GArray(<<GStr(<<"a">>)>>)>> >>)

GenDocs ==
    {GObject(<< <<"test_cases", GArray(items)>> >>) :
         items \in SeqsUpTo({CaseA, CaseB}, MaxCases)}
      \cup {GArray(items) : items \in SeqsUpTo({CaseA, CaseB, GNum}, MaxCases)}
      \cup { GObject(<< <<"cases", GArray(<<CaseA>>)>> >>),
             GObject(<< <<"note", GStr(<<"x">>)>>, <<"cases", GArray(<<CaseA>>)>>,
                        <<"more", GArray(<<CaseB>>)>> >>),
             GObject(<< <<"cases", GArray(<<CaseA>>)>>,
                        <<"test_cases", GArray(<<CaseB>>)>> >>),
             GObject(<< <<"test_cases", GStr(<<"x">>)>> >>),
             GObject(<< <<"test_cases", GNull>>, <<"cases", GArray(<<CaseA>>)>> >>),
             GObject(<< <<"note", GStr(<<"x">>)>> >>),
             GObject(<< <<"note", GObject(<< <<"cases", GArray(<<CaseA>>)>> >>)>> >>),
             GObject(<<>>),
             GNum, GNull, GStr(<<"x">>) }

GenContents ==
    { <<"{json}">>,
      <<"x", " ", "{json}", " ", "x">>,
      <<"~~~json", "\n", "{json}", "\n", "~~~">>,
      <<"{json}", "\n", "{json}">>,
      <<"x">>,
      <<>> }

RequirementLists ==
    SeqsUpTo({Requirement("REQ-1", "login"), Requirement("REQ-2", "logout")}, MaxCases)

GenInit ==
    /\ pc = "gen"
    /\ payload = GNull
    /\ requirement_list \in RequirementLists
    /\ response_content = <<>>
    /\ returned = NoOutcome
    /\ AppIdle
    /\ FmtIdle
    /\ V1Idle
    /\ ParseIdle
    /\ DbIdle

\* response = await test_case_agent.generate_response(...)
GenerateResponse ==
    /\ pc = "gen"
    /\ response_content' \in GenContents
    /\ payload' \in GenDocs
    /\ pc' = "responded"
    /\ UNCHANGED <<requirement_list, returned, appVars, fmtVars, v1Vars,
                   parseVars, dbVars>>

\* the rest of _generate_test_cases_async
ParseResponse ==
    /\ pc = "responded"
    /\ \E uuids \in [1..Len(requirement_list) -> UuidPrefixes] :
           returned' = _generate_test_cases_async(response_content, payload,
                                                  requirement_list, uuids)
    /\ pc' = "gen_done"
    /\ UNCHANGED <<requirement_list, response_content, payload, appVars, fmtVars,
                   v1Vars, parseVars, dbVars>>

GenNext == GenerateResponse \/ ParseResponse

SpecGen == GenInit /\ [][GenNext]_vars

\* the response is a JSON list and nothing else
ResponseIsList == strip(response_content) = <<"{json}">> /\ payload.t = "array"

\* the response holds one JSON object, and the object has a key with a list
ResponseHoldsListKey ==
    /\ Cardinality(Payloads(response_content)) = 1
    /\ payload.t = "object"
    /\ \E i \in 1..Len(payload.pairs) : payload.pairs[i][2].t = "array"

\* the list of the object: that of "test_cases" when it is one, else the first
PreferredList ==
    IF HasKey(payload, "test_cases") /\ Get(payload, "test_cases").t = "array"
    THEN Get(payload, "test_cases")
    ELSE payload.pairs[Min({i \in 1..Len(payload.pairs) :
                               payload.pairs[i][2].t = "array"})][2]

\* the response holds neither a JSON list nor a JSON object
ResponseHoldsNone ==
    Payloads(response_content) = {} \/ payload.t \notin {"array", "object"}

\* one test case for each requirement, in order, each with the requirement's id
OnePerRequirement(v) ==
    /\ v.t = "array"
    /\ Len(v.items) = Len(requirement_list)
    /\ \A i \in 1..Len(v.items) :
           /\ v.items[i].t = "object"
           /\ HasKey(v.items[i], "related_requirement")
           /\ Get(v.items[i], "related_requirement")
                = GStr(<<requirement_list[i].requirement_id>>)

\* C29: the call returns a list and does not raise: the list of the response
\* when the response is a JSON list, the list under "test_cases" or else under
\* the first list-valued key when it holds a JSON object with such a key, and
\* one placeholder for each requirement when it holds no JSON list or object
C29_ListOrPlaceholders ==
    pc = "gen_done" =>
        /\ ~returned.raised
        /\ returned.val.t = "array"
        /\ ResponseIsList => returned.val = payload
        /\ ResponseHoldsListKey => returned.val = PreferredList
        /\ (ResponseHoldsNone \/ (payload.t = "object" /\ ~ResponseHoldsListKey
                                    /\ Cardinality(Payloads(response_content)) = 1))
             => OnePerRequirement(returned.val)

-----------------------------------------------------------------------------
(* Numbered-line normalisation on its own *)

FmtAlphabet == {"1", ".", " ", "\n", "a"}

NoText == <<"-">>

FmtInit ==
    /\ pc = "fmt"
    /\ text \in SeqsUpTo(FmtAlphabet, MaxLen)
    /\ once = NoText
    /\ twice = NoText
    /\ payload = JNone
    /\ AppIdle
    /\ V1Idle
    /\ ParseIdle
    /\ DbIdle
    /\ GenIdle

FormatOnce ==
    /\ pc = "fmt"
    /\ once' = format_numbered_text(text)
    /\ pc' = "fmt1"
    /\ UNCHANGED <<text, twice, payload, appVars, v1Vars,
                   parseVars, dbVars, genVars>>

FormatTwice ==
    /\ pc = "fmt1"
    /\ twice' = format_numbered_text(once)
    /\ pc' = "fmt2"
    /\ UNCHANGED <<text, once, payload, appVars, v1Vars,
                   parseVars, dbVars, genVars>>

FmtNext == FormatOnce \/ FormatTwice

SpecFmt == FmtInit /\ [][FmtNext]_vars

\* C3: numbered-line normalisation is idempotent: formatting the formatted
\* text again gives the formatted text
C3_Idempotent == pc = "fmt2" => twice = once

\* a numbering marker starts inside the line, after text that is not a digit
MarkerInside(line) ==
    \E p \in 2..Len(line) : MatchAt(line, p) > 0 /\ ~IsDigit(line[p - 1])

\* C22: of a text with a numbering marker the formatted text has every
\* numbered item on a line of its own, no empty line and no line with leading
\* or trailing whitespace; a text without marker is returned unchanged
C22_NumberedLines ==
    pc = "fmt1" =>
        IF FindMatch(text, 1) = 0 THEN once = text
        ELSE \A i \in 1..Len(split_lines(once)) :
                 LET line == split_lines(once)[i] IN
                 /\ line # <<>>
                 /\ strip(line) = line
                 /\ ~MarkerInside(line)

====
